---- MODULE Spec2Model ----
(***************************************************************************)
(* Wine Quality dashboard (wine_quality.py): a Streamlit script.  Every    *)
(* user interaction re-executes the whole script top to bottom: sidebar    *)
(* radio, load_data(), then the four `if section == ...` branches.         *)
(*                                                                         *)
(* The table keeps the four columns the script names (the three features   *)
(* of the insight box plots and the quality target), in the order they     *)
(* have in the CSV.  Floating-point values computed by pandas and sklearn  *)
(* are kept exact as integer fractions:                                    *)
(*   - a standardized value is  num / sqrt(den);                           *)
(*   - a cluster centre is  sum / (cnt * sqrt(den))  per column.           *)
(***************************************************************************)
EXTENDS Integers, Sequences, FiniteSets, TLC

VARIABLES
    remote,            \* the table the CSV at the fixed url holds
    draws,             \* the draw sequence of the generator seeded with 42
    status,            \* how the last script run ended
    trigger,           \* what caused the last script run
    fetch,             \* outcome of the CSV fetch of the last script run
    section,           \* value of the sidebar radio
    show_missing,      \* value of the "Show missing values count" checkbox
    x_col, y_col,      \* values of the two axis selectboxes
    selected_insight,  \* value of the insight selectbox
    loaded,            \* what load_data() returned in the last script run
    data,              \* the script's global `data` when the run ended
    output             \* the widgets the last script run emitted, in order

vars == <<remote, draws, status, trigger, fetch, section, show_missing,
          x_col, y_col, selected_insight, loaded, data, output>>

----------------------------------------------------------------------------
(* Bounds of the model *)

MaxRows == 4

----------------------------------------------------------------------------
(* Sequences and arithmetic helpers *)

Min(a, b) == IF a < b THEN a ELSE b

RECURSIVE SumTo(_, _)
SumTo(s, n) == IF n = 0 THEN 0 ELSE s[n] + SumTo(s, n - 1)
SumSeq(s) == SumTo(s, Len(s))

RECURSIVE ProdTo(_, _)
ProdTo(s, n) == IF n = 0 THEN 1 ELSE s[n] * ProdTo(s, n - 1)
ProdSeq(s) == ProdTo(s, Len(s))

Range(s) == {s[i] : i \in DOMAIN s}

\* the sequence with the same elements, each computed once
RECURSIVE Fix(_, _)
Fix(f, n) == IF n = 0 THEN <<>> ELSE Append(Fix(f, n - 1), f[n])
AsTuple(f) == Fix(f, Len(f))

\* ascending order of the indices of s by value, ties by index
RECURSIVE SortIdx(_, _)
SortIdx(s, todo) ==
    IF todo = {} THEN <<>>
    ELSE LET i == CHOOSE a \in todo :
                     \A b \in todo :
                         s[a] < s[b] \/ (s[a] = s[b] /\ a <= b)
         IN <<i>> \o SortIdx(s, todo \ {i})

Sorted(s) == LET ix == SortIdx(s, DOMAIN s) IN AsTuple([k \in DOMAIN s |-> s[ix[k]]])

----------------------------------------------------------------------------
(* The table: pandas DataFrame with ordered columns and positional rows *)

Features == <<"volatile acidity", "sulphates", "alcohol">>
Target == "quality"
ClusterCol == "Cluster"
CsvColumns == Features \o <<Target>>

NRows(df) == Len(df.rows)

\* data[col]
Column(df, col) == AsTuple([i \in 1..NRows(df) |-> df.rows[i][col]])

\* data.head(): the first five rows
HeadRows == 5
DataFrameHead(df) ==
    [columns |-> df.columns,
     rows    |-> SubSeq(df.rows, 1, Min(HeadRows, NRows(df)))]

\* data.drop(col, axis=1): a new frame without the column
DataFrameDrop(df, col) ==
    LET keep == SelectSeq(df.columns, LAMBDA c : c # col)
    IN [columns |-> keep,
        rows    |-> [i \in 1..NRows(df) |->
                        [c \in Range(keep) |-> df.rows[i][c]]]]

\* data[col] = values: replaces the column in place, or appends a new one
DataFrameSetItem(df, col, values) ==
    [columns |-> IF col \in Range(df.columns) THEN df.columns
                 ELSE Append(df.columns, col),
     rows    |-> [i \in 1..NRows(df) |->
                     [c \in Range(df.columns) \cup {col} |->
                         IF c = col THEN values[i] ELSE df.rows[i][c]]]]

\* data.columns[:-1]
ColumnsButLast(df) == SubSeq(df.columns, 1, Len(df.columns) - 1)

\* the frame as the 2-D array sklearn receives: rows of cells in column order
ToArray(df) ==
    AsTuple([i \in 1..NRows(df) |->
                AsTuple([k \in 1..Len(df.columns) |-> df.rows[i][df.columns[k]]])])

----------------------------------------------------------------------------
(* StandardScaler().fit_transform(X)                                       *)
(* per column: mean = S/n, var = (n*Q - S*S)/n^2 with S the sum and Q the  *)
(* sum of squares; scale = sqrt(var), and a zero scale is replaced by 1.   *)
(* z = (x - mean)/scale = (n*x - S)/sqrt(den), den = n*Q - S*S, or n^2     *)
(* for a constant column.                                                  *)

ColOf(X, k) == AsTuple([i \in 1..Len(X) |-> X[i][k]])

VarNum(col) ==
    Len(col) * SumSeq([i \in DOMAIN col |-> col[i] * col[i]])
        - SumSeq(col) * SumSeq(col)

ScaleDen(col) == IF VarNum(col) = 0 THEN Len(col) * Len(col) ELSE VarNum(col)

FitTransform(X) ==
    LET n == Len(X)
        p == Len(X[1])
        S == AsTuple([k \in 1..p |-> SumSeq(ColOf(X, k))])
    IN [num |-> AsTuple([i \in 1..n |-> AsTuple([k \in 1..p |-> n * X[i][k] - S[k]])]),
        den |-> AsTuple([k \in 1..p |-> ScaleDen(ColOf(X, k))])]

----------------------------------------------------------------------------
(* KMeans(n_clusters=3, random_state=42).fit_predict(Z)                    *)
(* k-means++ seeding followed by Lloyd iterations.  A centre is kept as    *)
(* the sum of its members and their number; squared distances in the       *)
(* standardized space are compared by cross-multiplication.                *)

NClustersTwo == 3 - 1
\* (variant above: KMeans(n_clusters=2))
NClusters == 3
MaxIter == 300

\* product of the scale denominators of the other columns
Weight(Z, k) ==
    ProdSeq([c \in 1..Len(Z.den) |-> IF c = k THEN 1 ELSE Z.den[c]])

\* the standardized array with the column weights, as the fit works on it
Prepared(Z) ==
    [num |-> Z.num, den |-> Z.den,
     w   |-> AsTuple([k \in 1..Len(Z.den) |-> Weight(Z, k)])]

\* squared distance of row i to centre ctr, times ctr.cnt^2 * ProdSeq(Z.den)
DistNum(Z, i, ctr) ==
    SumSeq([k \in 1..Len(Z.den) |->
        (ctr.cnt * Z.num[i][k] - ctr.sum[k])
            * (ctr.cnt * Z.num[i][k] - ctr.sum[k]) * Z.w[k]])

PointCentre(Z, i) == [sum |-> Z.num[i], cnt |-> 1]

\* k-means++: the first centre is a uniformly drawn row; each further centre
\* is drawn among the rows with probability proportional to their squared
\* distance to the nearest centre chosen so far, so only among rows at a
\* positive distance; when no such row is left the search returns row 0.
Eligible(Z, chosen) ==
    SelectSeq([i \in 1..Len(Z.num) |-> i],
              LAMBDA i : \A c \in Range(chosen) : Z.num[i] # Z.num[c])

RECURSIVE KMeansPlusPlus(_, _, _)
KMeansPlusPlus(Z, d, chosen) ==
    IF Len(chosen) = NClusters
    THEN AsTuple([j \in 1..NClusters |-> PointCentre(Z, chosen[j])])
    ELSE LET r    == d[Len(chosen) + 1]
             el   == Eligible(Z, chosen)
             next == IF chosen = <<>> THEN (r % Len(Z.num)) + 1
                     ELSE IF el = <<>> THEN 1
                     ELSE el[(r % Len(el)) + 1]
         IN KMeansPlusPlus(Z, d, Append(chosen, next))

\* E-step: the label of a row is the first centre at minimal distance
Nearest(Z, i, centers) ==
    LET dist == AsTuple([j \in 1..NClusters |-> DistNum(Z, i, centers[j])])
        less(a, b) == dist[a] * centers[b].cnt * centers[b].cnt
                          < dist[b] * centers[a].cnt * centers[a].cnt
    IN CHOOSE j \in 1..NClusters :
           /\ \A l \in 1..(j - 1) : less(j, l)
           /\ \A l \in (j + 1)..NClusters : ~less(l, j)

EStep(Z, centers) == AsTuple([i \in 1..Len(Z.num) |-> Nearest(Z, i, centers) - 1])

\* rows by decreasing distance to their own centre; among rows at the same
\* distance the partition takes the later row first
RECURSIVE FarFirst(_, _)
FarFirst(own, todo) ==
    IF todo = {} THEN <<>>
    ELSE LET farther(a, b) == own[a].num * own[b].cnt * own[b].cnt
                                  > own[b].num * own[a].cnt * own[a].cnt
             i == CHOOSE a \in todo :
                     \A b \in todo : farther(a, b) \/ (~farther(b, a) /\ a >= b)
         IN <<i>> \o FarFirst(own, todo \ {i})

FarOrder(Z, centers, labels) ==
    FarFirst(AsTuple([i \in 1..Len(Z.num) |->
                         [num |-> DistNum(Z, i, centers[labels[i] + 1]),
                          cnt |-> centers[labels[i] + 1].cnt]]),
             1..Len(Z.num))

\* _relocate_empty_clusters_dense: the idx-th empty cluster takes the idx-th
\* farthest row as its centre, and the row leaves the sum of its own cluster
RECURSIVE Relocate(_, _, _, _, _)
Relocate(Z, acc, labels, empties, far) ==
    IF empties = <<>> THEN acc
    ELSE LET new == Head(empties)
             f   == Head(far)
             old == labels[f] + 1
             moved == [acc EXCEPT
                         ![old] = [sum |-> AsTuple([k \in 1..Len(Z.den) |->
                                               acc[old].sum[k] - Z.num[f][k]]),
                                   cnt |-> acc[old].cnt - 1]]
         IN Relocate(Z, [moved EXCEPT ![new] = PointCentre(Z, f)],
                     labels, Tail(empties), Tail(far))

\* M-step: sums and counts per cluster, relocation of the empty clusters,
\* then _average_centers (a cluster without weight keeps its sum)
ClusterSums(Z, labels) ==
    AsTuple([j \in 1..NClusters |->
        [sum |-> AsTuple([k \in 1..Len(Z.den) |->
                    SumSeq([i \in 1..Len(Z.num) |->
                               IF labels[i] = j - 1 THEN Z.num[i][k] ELSE 0])]),
         cnt |-> Cardinality({i \in 1..Len(Z.num) : labels[i] = j - 1})]])

AverageCentres(moved) ==
    AsTuple([j \in 1..NClusters |->
        [sum |-> moved[j].sum,
         cnt |-> IF moved[j].cnt > 0 THEN moved[j].cnt ELSE 1]])

RelocateEmpty(Z, centers, labels, sums, empties) ==
    IF empties = <<>> THEN sums
    ELSE Relocate(Z, sums, labels, empties, FarOrder(Z, centers, labels))

MStepSums(Z, centers, labels, sums) ==
    AverageCentres(
        RelocateEmpty(Z, centers, labels, sums,
                      SelectSeq(AsTuple([j \in 1..NClusters |-> j]), LAMBDA j : sums[j].cnt = 0)))

MStep(Z, centers, labels) == MStepSums(Z, centers, labels, ClusterSums(Z, labels))

\* Lloyd iterations until the labels repeat (a centre shift within the
\* tolerance leads to the same labels after the closing E-step) or max_iter.
\* When the centres return to those of two iterations before, the run
\* alternates between two sets of centres up to max_iter; the model goes to
\* the set that iteration max_iter ends with instead of replaying the steps.
RECURSIVE Lloyd(_, _, _, _, _)

LloydClose(Z, last) == [labels |-> EStep(Z, last), centers |-> last, n_iter |-> MaxIter]

LloydUpdate(Z, centers, before, labels_old, iter, labels, new) ==
    IF labels = labels_old
    THEN [labels |-> labels, centers |-> new, n_iter |-> iter]
    ELSE IF iter = MaxIter THEN LloydClose(Z, new)
    ELSE IF new = before
    THEN LloydClose(Z, IF (MaxIter - iter) % 2 = 0 THEN new ELSE centers)
    ELSE Lloyd(Z, new, centers, labels, iter + 1)

LloydAssign(Z, centers, before, labels_old, iter, labels) ==
    LloydUpdate(Z, centers, before, labels_old, iter, labels, MStep(Z, centers, labels))

Lloyd(Z, centers, before, labels_old, iter) ==
    LloydAssign(Z, centers, before, labels_old, iter, EStep(Z, centers))

\* fit_predict checks n_samples >= n_clusters before seeding
FitFails(Z) == Len(Z.num) < NClusters

FitPrepared(P, d) ==
    Lloyd(P, KMeansPlusPlus(P, d, <<>>), <<>>, AsTuple([i \in 1..Len(P.num) |-> -1]), 1)

FitPredict(Z, d) == FitPrepared(Prepared(Z), d)

----------------------------------------------------------------------------
(* pandas summaries used by the Overview and Exploration sections *)

None == [type |-> "None"]

IsNull(v) == v \notin Int

\* the type of a column is inferred from its cells: integer cells in every
\* row give int64, a missing cell turns the column into float64, a column
\* without cells is object; the labels of fit_predict are an int32 array
Dtype(df, col) ==
    IF col = ClusterCol THEN "int32"
    ELSE IF NRows(df) = 0 THEN "object"
    ELSE IF \A i \in 1..NRows(df) : ~IsNull(df.rows[i][col]) THEN "int64"
    ELSE "float64"

\* data.info(): prints the schema summary on standard output, returns None
DataFrameInfo(df) ==
    [stdout |-> [k \in 1..Len(df.columns) |->
                    [name     |-> df.columns[k],
                     non_null |-> Cardinality({i \in 1..NRows(df) :
                                                  ~IsNull(df.rows[i][df.columns[k]])}),
                     dtype    |-> Dtype(df, df.columns[k])]],
     ret    |-> None]

\* four times the k-th quartile, by linear interpolation between order statistics
Quartile4(sorted, k) ==
    LET h   == (Len(sorted) - 1) * k
        lo  == (h \div 4) + 1
        rem == h % 4
    IN IF rem = 0 THEN 4 * sorted[lo]
       ELSE 4 * sorted[lo] + rem * (sorted[lo + 1] - sorted[lo])

\* data.describe(): count, mean, std (as its square, n-1 in the denominator;
\* a zero denominator is NaN), min, quartiles, max of every column
DataFrameDescribe(df) ==
    [type  |-> "describe",
     stats |-> [k \in 1..Len(df.columns) |->
        LET col == Column(df, df.columns[k])
            srt == Sorted(col)
            n   == Len(col)
        IN [name  |-> df.columns[k],
            count |-> n,
            mean  |-> [num |-> SumSeq(col), den |-> n],
            std2  |-> [num |-> VarNum(col), den |-> n * (n - 1)],
            min   |-> srt[1],
            q1x4  |-> Quartile4(srt, 1),
            q2x4  |-> Quartile4(srt, 2),
            q3x4  |-> Quartile4(srt, 3),
            max   |-> srt[n]]]]

\* data.isnull().sum()
IsNullSum(df) ==
    [type   |-> "series",
     values |-> [k \in 1..Len(df.columns) |->
                    [name  |-> df.columns[k],
                     count |-> Cardinality({i \in 1..NRows(df) :
                                               IsNull(df.rows[i][df.columns[k]])})]]]

\* data.corr(): Pearson r = num / sqrt(den); a zero den is NaN
DataFrameCorr(df) ==
    [a \in Range(df.columns), b \in Range(df.columns) |->
        LET ca == Column(df, a)
            cb == Column(df, b)
        IN [num |-> NRows(df) * SumSeq([i \in 1..NRows(df) |-> ca[i] * cb[i]])
                        - SumSeq(ca) * SumSeq(cb),
            den |-> VarNum(ca) * VarNum(cb)]]

----------------------------------------------------------------------------
(* The script *)

Overview    == "1. Overview"
Exploration == "2. Data Exploration and Preparation"
Clustering  == "3. Analysis and Insights"
Insights    == "4. Conclusions and Recommendations"
SectionLabels == <<Overview, Exploration, Clustering, Insights>>

insights_options ==
    <<"Alcohol vs Quality", "Volatile Acidity vs Quality", "Sulphates vs Quality">>

Unset == ""
NoData == [type |-> "undefined"]
LoadError == [type |-> "error"]

Text(by, call, t) == [by |-> by, call |-> call, arg |-> [type |-> "text", text |-> t]]
Emit(by, call, v) == [by |-> by, call |-> call, arg |-> v]
Exception(kind) == Emit("streamlit", "exception", [type |-> kind])

\* st.selectbox / st.sidebar.radio: the stored value when it is one of the
\* options, the first option otherwise
WidgetValue(stored, opts) == IF stored \in Range(opts) THEN stored ELSE opts[1]

\* lines 15-21
Sidebar(sec) ==
    << Text("sidebar", "title", "Navigation"),
       Emit("sidebar", "radio",
            [type |-> "choice", label |-> "Go to:", options |-> SectionLabels,
             value |-> sec]) >>

\* (variant: a failed fetch falls back on the table and the script goes on)
load_data_fallback(ok) == remote

\* load_data(): the parsed CSV, or an exception of pd.read_csv
load_data(ok) == IF ok THEN remote ELSE LoadError

\* lines 26-40
RenderOverview(sec, df) ==
    IF sec = Overview THEN
        << Text(Overview, "title", "Wine Quality Analysis"),
           Text(Overview, "markdown", "This Streamlit app explores the Wine Quality dataset"),
           Text(Overview, "subheader", "Dataset Overview"),
           Emit(Overview, "dataframe", [type |-> "frame", df |-> DataFrameHead(df)]),
           Text(Overview, "markdown", "**Dataset Structure:**"),
           Emit(Overview, "write", DataFrameInfo(df).ret),
           Text(Overview, "markdown", "**Descriptive Statistics:**"),
           Emit(Overview, "write", DataFrameDescribe(df)) >>
    ELSE <<>>

\* lines 43-53
ExplorationBody(df, chk) ==
    << Text(Exploration, "title", "Data Exploration and Preparation"),
       Text(Exploration, "subheader", "Data Cleaning"),
       Emit(Exploration, "checkbox",
            [type |-> "flag", label |-> "Show missing values count", value |-> chk]) >>
    \o (IF chk THEN << Emit(Exploration, "write", IsNullSum(df)) >> ELSE <<>>)
    \o << Text(Exploration, "subheader", "Correlation Heatmap"),
          Emit(Exploration, "pyplot",
               [type |-> "heatmap", corr |-> DataFrameCorr(df), annot |-> TRUE,
                cmap |-> "coolwarm"]) >>

\* (variant: the branch is entered for every label but the first)
RenderExplorationNotOverview(sec, df, chk) ==
    IF sec # Overview THEN ExplorationBody(df, chk) ELSE <<>>

\* lines 42-53
RenderExploration(sec, df, chk) ==
    IF sec = Exploration THEN ExplorationBody(df, chk) ELSE <<>>

\* lines 64-74, with the cluster column attached
ClusteringPlot(df2, kmeans, den, opts, xv, yv) ==
    [out |->
        << Text(Clustering, "write", "Cluster Centers:"),
           Emit(Clustering, "write",
                [type |-> "centers", centers |-> kmeans.centers, den |-> den]),
           Text(Clustering, "subheader", "Cluster Visualization"),
           Emit(Clustering, "selectbox",
                [type |-> "choice", label |-> "Select X-axis feature",
                 options |-> opts, value |-> xv]),
           Emit(Clustering, "selectbox",
                [type |-> "choice", label |-> "Select Y-axis feature",
                 options |-> opts, value |-> yv]),
           Emit(Clustering, "pyplot",
                [type |-> "scatterplot", x |-> Column(df2, xv), y |-> Column(df2, yv),
                 hue |-> Column(df2, ClusterCol), palette |-> "viridis"]) >>,
     data   |-> df2,
     status |-> "ok",
     x      |-> xv,
     y      |-> yv]

ClusteringSelect(df2, kmeans, den, opts, x, y) ==
    ClusteringPlot(df2, kmeans, den, opts, WidgetValue(x, opts), WidgetValue(y, opts))

\* line 63 and lines 69-70
ClusteringAttach(df2, kmeans, den, x, y) ==
    ClusteringSelect(df2, kmeans, den, ColumnsButLast(df2), x, y)

\* (variant: the quality column is dropped from `data` itself)
ClusteringFitInPlace(df, kmeans, den, x, y) ==
    ClusteringAttach(DataFrameSetItem(DataFrameDrop(df, Target), ClusterCol, kmeans.labels),
                     kmeans, den, x, y)

ClusteringFit(df, kmeans, den, x, y) ==
    ClusteringAttach(DataFrameSetItem(df, ClusterCol, kmeans.labels), kmeans, den, x, y)

\* lines 59-63
ClusteringScaled(df, data_scaled, d, x, y) ==
    IF FitFails(data_scaled)
    THEN [out    |-> << Exception("computation_failure") >>,
          data   |-> df,
          status |-> "computation_failure",
          x      |-> Unset,
          y      |-> Unset]
    ELSE ClusteringFit(df, FitPredict(data_scaled, d), data_scaled.den, x, y)

ClusteringHead(body) ==
    [out    |-> << Text(Clustering, "title", "Analysis and Insights"),
                   Text(Clustering, "subheader", "Clustering Analysis") >> \o body.out,
     data   |-> body.data,
     status |-> body.status,
     x      |-> body.x,
     y      |-> body.y]

\* lines 55-74
RenderClustering(sec, df, d, x, y) ==
    IF sec = Clustering
    THEN ClusteringHead(
             ClusteringScaled(df, FitTransform(ToArray(DataFrameDrop(df, Target))),
                              d, x, y))
    ELSE [out |-> <<>>, data |-> df, status |-> "ok", x |-> Unset, y |-> Unset]

\* lines 105-146: the if / elif / elif over the selected insight
InsightPlot(df, ins) ==
    LET plot(text, col, title, ylabel) ==
            << Text(Insights, "markdown", text),
               Emit(Insights, "pyplot",
                    [type |-> "boxplot", x |-> Column(df, Target), y |-> Column(df, col),
                     palette |-> "coolwarm", title |-> title,
                     xlabel |-> "Wine Quality", ylabel |-> ylabel]) >>
    IN IF ins = "Alcohol vs Quality"
       THEN plot("**Insight:** Wines with higher alcohol levels tend to receive higher quality ratings.",
                 "alcohol", "Alcohol vs Wine Quality", "Alcohol Content")
       ELSE IF ins = "Volatile Acidity vs Quality"
       THEN plot("**Insight:** Higher volatile acidity is associated with lower quality ratings.",
                 "volatile acidity", "Volatile Acidity vs Wine Quality", "Volatile Acidity")
       ELSE IF ins = "Sulphates vs Quality"
       THEN plot("**Insight:** Wines with higher sulphates levels tend to have better quality ratings.",
                 "sulphates", "Sulphates vs Wine Quality", "Sulphates")
       ELSE <<>>

\* lines 76-146
RenderInsights(sec, df, ins) ==
    IF sec = Insights THEN
        << Text(Insights, "title", "Conclusions and Recommendations"),
           Text(Insights, "markdown", "### Key Takeaways"),
           Text(Insights, "markdown", "- **Relationship Between Alcohol and Quality:** ..."),
           Text(Insights, "markdown", "### Recommendations for Winemakers"),
           Text(Insights, "markdown", "- Optimize alcohol content to enhance the overall quality. ..."),
           Text(Insights, "markdown", "### Explore Insights Interactively"),
           Emit(Insights, "selectbox",
                [type |-> "choice", label |-> "Choose an insight to explore:",
                 options |-> insights_options,
                 value |-> WidgetValue(ins, insights_options)]) >>
        \o InsightPlot(df, WidgetValue(ins, insights_options))
    ELSE <<>>

\* lines 26-146: the four `if section == ...` statements in order; an
\* exception raised in one of them ends the script run
DispatchWith(sec, df, chk, ins, cl) ==
    [out    |-> RenderOverview(sec, df) \o RenderExploration(sec, df, chk) \o cl.out
                   \o (IF cl.status = "ok" THEN RenderInsights(sec, cl.data, ins) ELSE <<>>),
     data   |-> cl.data,
     status |-> cl.status,
     x      |-> cl.x,
     y      |-> cl.y]

Dispatch(sec, df, chk, x, y, ins, d) ==
    DispatchWith(sec, df, chk, ins, RenderClustering(sec, df, d, x, y))

\* the state a script run leaves when load_data() returned a table
Finish(sec, chk, ins, run) ==
    /\ status' = run.status
    /\ data' = run.data
    /\ output' = Sidebar(sec) \o run.out
    /\ show_missing' = (sec = Exploration /\ chk)
    /\ x_col' = run.x
    /\ y_col' = run.y
    /\ selected_insight' =
           IF sec = Insights THEN WidgetValue(ins, insights_options) ELSE Unset

\* the state a script run leaves when load_data() raised
Abort(sec) ==
    /\ status' = "data_unavailable"
    /\ data' = NoData
    /\ output' = Sidebar(sec) \o << Exception("data_unavailable") >>
    /\ show_missing' = FALSE
    /\ x_col' = Unset
    /\ y_col' = Unset
    /\ selected_insight' = Unset

Loaded(sec, chk, x, y, ins, got) ==
    /\ loaded' = got
    /\ IF got = LoadError THEN Abort(sec)
       ELSE Finish(sec, chk, ins, Dispatch(sec, got, chk, x, y, ins, draws))

\* One execution of the script, top to bottom, with the widget values the
\* session holds.  A widget the run does not reach loses its stored value.
Script(sec, chk, x, y, ins, ok, trig) ==
    /\ section' = sec
    /\ trigger' = trig
    /\ fetch' = IF ok THEN "ok" ELSE "failed"
    /\ Loaded(sec, chk, x, y, ins, load_data(ok))
    /\ UNCHANGED <<remote, draws>>

----------------------------------------------------------------------------
(* Tables served at the url *)

Row(va, su, al, q) ==
    ("volatile acidity" :> va) @@ ("sulphates" :> su) @@ ("alcohol" :> al) @@ (Target :> q)

Frame(rows) == [columns |-> CsvColumns, rows |-> rows]

\* an excerpt with a constant column in its first rows and a repeated row
WineSample ==
    << Row(1, 1, 0, 5), Row(2, 1, 0, 5), Row(0, 1, 1, 6),
       Row(0, 2, 2, 6), Row(0, 2, 2, 6), Row(1, 0, 2, 5) >>

\* the session model serves any run of up to MaxRows consecutive sample rows
SessionDatasets ==
    {Frame(SubSeq(WineSample, a, b)) :
        <<a, b>> \in {p \in (1..Len(WineSample)) \X (1..Len(WineSample)) :
                         p[1] <= p[2] /\ p[2] - p[1] < MaxRows}}

\* the generator seeded with 42 yields one fixed sequence of draws; the
\* model follows every sequence, a draw being the rank of the row it selects
\* among the rows still eligible (one row fewer after every centre)
Draws == {d \in [1..NClusters -> 0..(MaxRows - 1)] :
             \A j \in 1..NClusters : d[j] <= MaxRows - j}
SessionDraws == {d \in Draws : \A j \in 1..NClusters : d[j] = d[1]}

\* the clustering model serves every table of up to MaxRows rows with
\* two-valued features, rows in a fixed order (all draws cover the others)
CubeRows ==
    << Row(0, 0, 0, 5), Row(0, 0, 1, 6), Row(0, 1, 0, 5), Row(0, 1, 1, 6),
       Row(1, 0, 0, 5), Row(1, 0, 1, 6), Row(1, 1, 0, 5), Row(1, 1, 1, 6) >>

FitDatasets ==
    {Frame([i \in DOMAIN ix |-> CubeRows[ix[i]]]) :
        ix \in {s \in UNION {[1..n -> 1..Len(CubeRows)] : n \in 1..MaxRows} :
                   \A i \in 1..(Len(s) - 1) : s[i] <= s[i + 1]}}

----------------------------------------------------------------------------
(* The session *)

InitWith(tables, seqs, sec) ==
    /\ remote \in tables
    /\ draws \in seqs
    /\ status = "not_run"
    /\ trigger = "none"
    /\ fetch = "none"
    /\ section = sec
    /\ show_missing = FALSE
    /\ x_col = Unset
    /\ y_col = Unset
    /\ selected_insight = Unset
    /\ loaded = NoData
    /\ data = NoData
    /\ output = <<>>

Init == InitWith(SessionDatasets, SessionDraws, Unset)

\* the options of the widget with this label on screen, <<>> when absent
OnScreen(label) ==
    LET hits == SelectSeq(output, LAMBDA w : w.arg.type \in {"choice", "flag"}
                                             /\ w.arg.label = label)
    IN IF hits = <<>> THEN <<>>
       ELSE IF hits[1].arg.type = "flag" THEN <<TRUE, FALSE>>
       ELSE hits[1].arg.options

\* the browser opens the app: first execution of the script
Start ==
    /\ status = "not_run"
    /\ \E ok \in BOOLEAN :
          Script(WidgetValue(section, SectionLabels), show_missing, x_col, y_col,
                 selected_insight, ok, "start")

SelectSection(s) ==
    /\ s \in Range(OnScreen("Go to:"))
    /\ s # section
    /\ \E ok \in BOOLEAN :
          Script(s, show_missing, x_col, y_col, selected_insight, ok, "radio")

ToggleMissing ==
    /\ OnScreen("Show missing values count") # <<>>
    /\ \E ok \in BOOLEAN :
          Script(section, ~show_missing, x_col, y_col, selected_insight, ok, "checkbox")

SelectX(c) ==
    /\ c \in Range(OnScreen("Select X-axis feature"))
    /\ c # x_col
    /\ \E ok \in BOOLEAN :
          Script(section, show_missing, c, y_col, selected_insight, ok, "selectbox")

SelectY(c) ==
    /\ c \in Range(OnScreen("Select Y-axis feature"))
    /\ c # y_col
    /\ \E ok \in BOOLEAN :
          Script(section, show_missing, x_col, c, selected_insight, ok, "selectbox")

SelectInsight(i) ==
    /\ i \in Range(OnScreen("Choose an insight to explore:"))
    /\ i # selected_insight
    /\ \E ok \in BOOLEAN :
          Script(section, show_missing, x_col, y_col, i, ok, "selectbox")

\* the user asks for a rerun of the script
Rerun ==
    /\ status # "not_run"
    /\ \E ok \in BOOLEAN :
          Script(section, show_missing, x_col, y_col, selected_insight, ok, "rerun")

AxisChoices == Range(CsvColumns) \cup {ClusterCol}

Next ==
    \/ Start
    \/ \E s \in Range(SectionLabels) : SelectSection(s)
    \/ ToggleMissing
    \/ \E c \in AxisChoices : SelectX(c)
    \/ \E c \in AxisChoices : SelectY(c)
    \/ \E i \in Range(insights_options) : SelectInsight(i)
    \/ Rerun

Spec == Init /\ [][Next]_vars

\* the clustering step over every small table: the app is opened (the radio
\* has no stored value, the first run renders the overview) and the user goes
\* to the clustering section; a draw is a rank among at most NRows - j + 1
\* eligible rows, and no draw is made on a table that fit_predict rejects;
\* the user moves on from an overview that was rendered
InitFit ==
    /\ InitWith(FitDatasets, Draws, Unset)
    /\ \A j \in 1..NClusters :
          draws[j] <= IF NRows(remote) < NClusters THEN 0 ELSE NRows(remote) - j

GoToClustering ==
    /\ status = "ok"
    /\ SelectSection(Clustering)

NextFit ==
    \/ Start
    \/ GoToClustering

SpecFit == InitFit /\ [][NextFit]_vars

----------------------------------------------------------------------------
(* Properties *)

Ran == status # "not_run"

\* the section renderers that emitted a widget
ProducersOf(out) == {out[i].by : i \in DOMAIN out} \cap Range(SectionLabels)
Producers == ProducersOf(output)

HasCluster(df) == "columns" \in DOMAIN df /\ ClusterCol \in Range(df.columns)

FeatureRows(df) == {[k \in 1..Len(Features) |-> df.rows[i][Features[k]]] : i \in 1..NRows(df)}

NonDegenerate(df) == Cardinality(FeatureRows(df)) >= 3

HasConstantFeature(df) ==
    \E k \in 1..Len(Features) :
        \A i \in 1..NRows(df) : df.rows[i][Features[k]] = df.rows[1][Features[k]]

OtherLabels == {"", "5. Other"}

\* C1 as stated: in every render cycle exactly one of the four section
\* renderers produces output, the one of the selected label.
C1_EveryCycleOneRenderer == Ran => Producers = {section}

\* C1 amended: in every render cycle whose load_data() call succeeded,
\* exactly the renderer of the selected label produces output and the other
\* three produce none; a label that is none of the four renders nothing.
C1_LoadedCycleOneRenderer ==
    (Ran /\ fetch = "ok") =>
        /\ Producers = {section}
        /\ \A l \in OtherLabels :
              Dispatch(l, loaded, show_missing, x_col, y_col, selected_insight, draws).out
                  = <<>>

C1_Witness ==
    /\ status = "ok" /\ trigger = "radio" /\ section = Exploration
    /\ Producers = {Exploration}

\* C2: a render cycle whose load_data() call failed ends with an error and
\* no section renderer has produced output in it, whatever label is selected.
C2_FailedLoadRendersNothing ==
    fetch = "failed" => (status = "data_unavailable" /\ Producers = {})

C2_Witness ==
    /\ fetch = "failed" /\ trigger = "radio" /\ section = Clustering
    /\ Len(output) > 0

\* C3: the dataset is fetched in the script run that starts the session and
\* in no run that a later interaction triggers.
C3_FetchedOnlyAtStart == Ran => (fetch # "none" <=> trigger = "start")

\* C4: once the table of a render cycle carries the cluster-id column, the
\* table of every later render cycle that has a table carries it too.
C4_ClusterColumnStays ==
    [][(HasCluster(data) /\ status' # "data_unavailable") => HasCluster(data')]_vars

\* C5: after the clustering step on a table with at least three distinct
\* feature rows, the cluster column has one label per row of the table,
\* every label is 0, 1 or 2, and each of 0, 1, 2 labels at least one row.
C5_ThreeClustersCoverRows ==
    (status = "ok" /\ section = Clustering /\ NonDegenerate(loaded)) =>
        /\ HasCluster(data)
        /\ NRows(data) = NRows(loaded)
        /\ \A i \in 1..NRows(data) : data.rows[i][ClusterCol] \in {0, 1, 2}
        /\ \A v \in {0, 1, 2} : \E i \in 1..NRows(data) : data.rows[i][ClusterCol] = v

C5_Witness ==
    /\ status = "ok" /\ section = Clustering /\ NonDegenerate(loaded)
    /\ NRows(loaded) = 4
    /\ \E i, j \in 1..NRows(data) :
          i # j /\ data.rows[i][ClusterCol] = data.rows[j][ClusterCol]

\* C7: with a feature column whose values are all equal, a render of the
\* clustering section ends in a computation failure and attaches no labels.
C7_ConstantColumnFails ==
    (Ran /\ fetch = "ok" /\ section = Clustering /\ HasConstantFeature(loaded)) =>
        (status = "computation_failure" /\ ~HasCluster(data))

\* C8: a render of the overview section shows three data widgets in order:
\* the first rows of the table, the schema summary (not None), and the
\* descriptive statistics, each computed from the loaded table.
C8_OverviewShowsSchema ==
    (status = "ok" /\ section = Overview) =>
        LET shown == SelectSeq(output, LAMBDA w : w.by = Overview
                                                  /\ w.call \in {"dataframe", "write"})
        IN /\ Len(shown) = 3
           /\ shown[1].arg = [type |-> "frame", df |-> DataFrameHead(loaded)]
           /\ shown[2].arg # None
           /\ shown[2].arg = [type |-> "info", summary |-> DataFrameInfo(loaded).stdout]
           /\ shown[3].arg = DataFrameDescribe(loaded)

\* C9: a render of the overview, exploration or insights section leaves the
\* table exactly as load_data() returned it in that cycle; a render of the
\* clustering section changes nothing but the added cluster-id column.
C9_OnlyClusterColumnAdded ==
    (Ran /\ fetch = "ok") =>
        IF section = Clustering /\ HasCluster(data)
        THEN /\ data.columns = Append(loaded.columns, ClusterCol)
             /\ DataFrameDrop(data, ClusterCol) = loaded
        ELSE data = loaded

C9_Witness ==
    /\ status = "ok" /\ section = Clustering /\ HasCluster(data)
    /\ trigger = "selectbox" /\ x_col # y_col

\* C10: in every render of the clustering section both axis selectors offer
\* exactly the feature columns, and never the cluster-id column.
C10_AxisOptionsAreFeatures ==
    \A i \in DOMAIN output :
        (output[i].by = Clustering /\ output[i].call = "selectbox") =>
            /\ Range(output[i].arg.options) = Range(Features)
            /\ ClusterCol \notin Range(output[i].arg.options)

====
